---- MODULE Spec2Model ----
(***************************************************************************)
(* Model of src/sales_analysis.py: the cleaned transaction table df and    *)
(* the three analysis steps main() runs over it, in main()'s order:        *)
(* calculate_pm_metrics, analyze_customer_segments, generate_pm_insights.  *)
(*                                                                         *)
(* Numbers.  pandas columns are IEEE doubles.  A value is modelled as an   *)
(* exact rational in lowest terms or one of the three special values the   *)
(* code can produce by dividing by zero: NaN, +inf, -inf.  Rounding of     *)
(* finite results is not modelled.                                         *)
(***************************************************************************)
EXTENDS Integers, Sequences, FiniteSets

VARIABLES df, pc, metrics, customer_insights, insights, err

vars == <<df, pc, metrics, customer_insights, insights, err>>

(***************************************************************************)
(* Floating-point values                                                   *)
(***************************************************************************)
Abs(x) == IF x < 0 THEN -x ELSE x

RECURSIVE GCD(_, _)
GCD(a, b) == IF b = 0 THEN a ELSE GCD(b, a % b)

LCM(a, b) == (a \div GCD(a, b)) * b

NaN == [k |-> "nan", n |-> 0, d |-> 1]
PosInf == [k |-> "inf", n |-> 1, d |-> 1]
NegInf == [k |-> "inf", n |-> -1, d |-> 1]

\* The finite value n/d (d # 0), in lowest terms with a positive denominator.
Frac(n, d) ==
    LET g == GCD(Abs(n), Abs(d))
        s == IF d < 0 THEN -1 ELSE 1
    IN [k |-> "num", n |-> s * (n \div g), d |-> s * (d \div g)]

Num(i) == [k |-> "num", n |-> i, d |-> 1]

IsNaN(x) == x.k = "nan"
IsInf(x) == x.k = "inf"
IsFinite(x) == x.k = "num"
Sign(x) == IF x.n > 0 THEN 1 ELSE IF x.n < 0 THEN -1 ELSE 0

FNeg(x) == [x EXCEPT !.n = -x.n]

\* IEEE addition: inf + (-inf) is NaN.
FAdd(x, y) ==
    IF IsNaN(x) \/ IsNaN(y) THEN NaN
    ELSE IF IsInf(x) /\ IsInf(y) THEN (IF x.n = y.n THEN x ELSE NaN)
    ELSE IF IsInf(x) THEN x
    ELSE IF IsInf(y) THEN y
    ELSE LET m == LCM(x.d, y.d)
         IN Frac(x.n * (m \div x.d) + y.n * (m \div y.d), m)

FSub(x, y) == FAdd(x, FNeg(y))

\* IEEE multiplication: 0 * inf is NaN.
FMul(x, y) ==
    IF IsNaN(x) \/ IsNaN(y) THEN NaN
    ELSE IF IsInf(x) \/ IsInf(y)
         THEN (IF Sign(x) * Sign(y) = 0 THEN NaN
               ELSE IF Sign(x) * Sign(y) > 0 THEN PosInf ELSE NegInf)
    ELSE LET g1 == GCD(Abs(x.n), y.d)
             g2 == GCD(Abs(y.n), x.d)
         IN Frac((x.n \div g1) * (y.n \div g2), (x.d \div g2) * (y.d \div g1))

\* numpy/pandas true division: x/0 is +-inf, 0/0 is NaN, and no exception.
FDiv(x, y) ==
    IF IsNaN(x) \/ IsNaN(y) THEN NaN
    ELSE IF IsInf(y) THEN (IF IsInf(x) THEN NaN ELSE Num(0))
    ELSE IF y.n = 0
         THEN (IF Sign(x) = 0 THEN NaN
               ELSE IF Sign(x) > 0 THEN PosInf ELSE NegInf)
    ELSE IF IsInf(x)
         THEN (IF Sign(x) * Sign(y) > 0 THEN PosInf ELSE NegInf)
    ELSE FMul(x, Frac(y.d, y.n))

\* x < y; false whenever an operand is NaN.
FLt(x, y) ==
    IF IsNaN(x) \/ IsNaN(y) THEN FALSE
    ELSE IF IsInf(x) THEN (x.n < 0 /\ ~(IsInf(y) /\ y.n < 0))
    ELSE IF IsInf(y) THEN y.n > 0
    ELSE x.n * y.d < y.n * x.d

FLe(x, y) == ~IsNaN(x) /\ ~IsNaN(y) /\ ~FLt(y, x)

FGe(x, y) == FLe(y, x)

(***************************************************************************)
(* Table helpers: the pandas operations the code uses                      *)
(***************************************************************************)
RECURSIVE SortedSeq(_)
\* The keys of a groupby (sort=True, the default), ascending.
SortedSeq(S) ==
    IF S = {} THEN <<>>
    ELSE LET m == CHOOSE x \in S : \A y \in S : x <= y
         IN <<m>> \o SortedSeq(S \ {m})

KeysOf(rows, f) == {rows[i][f] : i \in DOMAIN rows}

Where(rows, f, v) == SelectSeq(rows, LAMBDA r : r[f] = v)

RECURSIVE SumCol(_, _)
\* Series.sum() of an integer column.
SumCol(rows, f) ==
    IF rows = <<>> THEN 0 ELSE Head(rows)[f] + SumCol(Tail(rows), f)

RECURSIVE FSum(_)
FSum(xs) == IF xs = <<>> THEN Num(0) ELSE FAdd(Head(xs), FSum(Tail(xs)))

\* Series.mean(): skipna=True drops the NaN entries (and only those: an
\* infinite entry stays in the sum); NaN when nothing is left.
SkipNaMean(xs) ==
    LET kept == SelectSeq(xs, LAMBDA x : ~IsNaN(x))
    IN IF kept = <<>> THEN NaN ELSE FDiv(FSum(kept), Num(Len(kept)))

Mean(xs) == SkipNaMean(xs)

RECURSIVE Pow(_, _)
Pow(x, i) == IF i = 0 THEN Num(1) ELSE FMul(x, Pow(x, i - 1))

(***************************************************************************)
(* The cleaned table (load_and_clean_data's result)                        *)
(***************************************************************************)
\* A Date is encoded as month * 100 + day; to_period('M') keeps the month.
MonthOf(date) == date \div 100

Row(date, region, cat, cust, sales, profit, qty) ==
    [Date |-> date, Region |-> region, Product_Category |-> cat,
     Customer_ID |-> cust, Sales_Amount |-> sales, Profit |-> profit,
     Quantity |-> qty, Month |-> MonthOf(date)]

SeqsUpTo(S, n) == UNION {[1..k -> S] : k \in 0..n}

RECURSIVE Concat(_)
Concat(ss) == IF ss = <<>> THEN <<>> ELSE Head(ss) \o Concat(Tail(ss))

Repeat(x, n) == [i \in 1..n |-> x]

\* Bounds of the input families.
MaxMonths == 3
MaxRows == 3
MaxRegionRows == 2

SalesLevels == {0, 1000}

\* Family 1: up to MaxRows rows of one region spread over MaxMonths months, in
\* any order, zero-revenue rows included; the empty table is its length 0.
MonthlyRows ==
    {Row(m * 100 + 1, 1, 1, 1, s, s \div 10, 1) : m \in 1..MaxMonths, s \in SalesLevels}

MonthlyFamily == SeqsUpTo(MonthlyRows, MaxRows)

\* Family 2: 1..MaxRegionRows rows over two regions and two categories, with
\* zero-revenue rows and a loss on a zero-revenue row.
SalesProfit == {<<0, 0>>, <<0, -100>>, <<1000, 0>>, <<1000, 100>>, <<2000, 400>>}

RegionalRows ==
    {Row(101, r, c, 1, sp[1], sp[2], 1) : r \in 1..2, c \in 1..2, sp \in SalesProfit}

RegionalFamily == SeqsUpTo(RegionalRows, MaxRegionRows) \ {<<>>}

\* Family 3: 1..MaxCustomers customers with 1..MaxOrders orders each, all rows
\* at one revenue level (zero included), margins differing by customer.
MaxCustomers == 5
MaxOrders == 2

CustomerRows(counts, level) ==
    Concat([c \in DOMAIN counts |->
               Repeat(Row(101, 1 + (c % 2), 1, c, level, (level \div 100) * c, 1), counts[c])])

SegmentFamily ==
    {CustomerRows(counts, level) :
        counts \in UNION {[1..n -> 1..MaxOrders] : n \in 1..MaxCustomers},
        level \in SalesLevels}

\* Family 4: per category a run of distinct dates around the sample threshold
\* of the price-sensitivity analysis, optionally with a second row on the first
\* date (rows # date-points) and a zero-quantity first date.
MaxExtraPoints == 2

PointCounts == 9..(10 + MaxExtraPoints)

Trends == {"down", "flat", "up", "mixed"}

ZeroQuantity == {"none", "zero_sales", "with_sales"}

DayQuantity(day) == 1 + (day % 3)

DayPrice(day, trend) ==
    CASE trend = "down" -> 4 - DayQuantity(day)
      [] trend = "flat" -> 2
      [] trend = "up" -> DayQuantity(day)
      [] OTHER -> 1 + (day % 2)

CategoryRows(cat, n, trend, zq) ==
    [day \in 1..n |->
        IF day = 1 /\ zq # "none"
        THEN Row(100 + day, 1, cat, 1, IF zq = "zero_sales" THEN 0 ELSE 10, 0, 0)
        ELSE Row(100 + day, 1, cat, 1, DayPrice(day, trend) * DayQuantity(day),
                 DayQuantity(day), DayQuantity(day))]

ElasticityFamily ==
    {CategoryRows(1, n1, trend, zq)
        \o (IF dup THEN <<Row(101, 2, 1, 2, 10, 1, 1)>> ELSE <<>>)
        \o CategoryRows(2, n2, "up", "none") :
        n1 \in PointCounts, n2 \in PointCounts \cup {0}, trend \in Trends,
        zq \in ZeroQuantity, dup \in BOOLEAN}

Datasets == MonthlyFamily \cup RegionalFamily \cup SegmentFamily \cup ElasticityFamily

(***************************************************************************)
(* calculate_pm_metrics                                                    *)
(***************************************************************************)
base_cac == 150

\* 0.98
CacDecay == Frac(98, 100)

\* Mutant: first() in place of sum().
MonthlyFirsts(d) ==
    LET ms == SortedSeq(KeysOf(d, "Month"))
    IN [i \in 1..Len(ms) |->
          [Month |-> ms[i], Sales_Amount |-> Where(d, "Month", ms[i])[1].Sales_Amount]]

\* groupby('Month')['Sales_Amount'].sum().reset_index(): one row per month
\* present, in ascending month order.
MonthlyTotals(d) ==
    LET ms == SortedSeq(KeysOf(d, "Month"))
    IN [i \in 1..Len(ms) |->
          [Month |-> ms[i], Sales_Amount |-> SumCol(Where(d, "Month", ms[i]), "Sales_Amount")]]

\* Series.pct_change(): NaN for the first entry, then curr / prev - 1.
PctChange(xs) ==
    [i \in 1..Len(xs) |->
        IF i = 1 THEN NaN ELSE FSub(FDiv(Num(xs[i]), Num(xs[i - 1])), Num(1))]

MonthlySales(d) ==
    LET t == MonthlyTotals(d)
        g == PctChange([i \in 1..Len(t) |-> t[i].Sales_Amount])
    IN [i \in 1..Len(t) |->
          [Month |-> t[i].Month, Sales_Amount |-> t[i].Sales_Amount,
           MRR_Growth |-> FMul(g[i], Num(100))]]

\* groupby('Month')['Customer_ID'].nunique() with the mocked CAC column.
MonthlyCustomers(d) ==
    LET ms == SortedSeq(KeysOf(d, "Month"))
    IN [i \in 1..Len(ms) |->
          [Month |-> ms[i],
           Customer_ID |-> Cardinality(KeysOf(Where(d, "Month", ms[i]), "Customer_ID")),
           CAC |-> FMul(Num(base_cac), Pow(CacDecay, i - 1))]]

\* groupby(key).agg(sum) of Sales_Amount and Profit with the margin column.
MarginsBy(d, key) ==
    LET ks == SortedSeq(KeysOf(d, key))
    IN [i \in 1..Len(ks) |->
          LET g == Where(d, key, ks[i])
              s == SumCol(g, "Sales_Amount")
              p == SumCol(g, "Profit")
          IN [Key |-> ks[i], Sales_Amount |-> s, Profit |-> p,
              Profit_Margin |-> FMul(FDiv(Num(p), Num(s)), Num(100))]]

RegionalMargins(d) == MarginsBy(d, "Region")

NoMetrics ==
    [monthly_sales |-> <<>>, monthly_customers |-> <<>>, regional_margins |-> <<>>,
     avg_mrr_growth |-> NaN, avg_cac |-> NaN, cac_improvement |-> NaN]

PmMetrics(d) ==
    LET ms == MonthlySales(d)
        mc == MonthlyCustomers(d)
        cac == [i \in 1..Len(mc) |-> mc[i].CAC]
    IN [monthly_sales |-> ms,
        monthly_customers |-> mc,
        regional_margins |-> RegionalMargins(d),
        avg_mrr_growth |-> Mean([i \in 1..Len(ms) |-> ms[i].MRR_Growth]),
        avg_cac |-> Mean(cac),
        cac_improvement |->
            FMul(FDiv(FSub(cac[1], cac[Len(cac)]), cac[1]), Num(100))]

\* CAC.iloc[0] on an empty column raises IndexError (line 99) before the
\* function returns anything.
CalculatePmMetrics ==
    /\ pc = "metrics"
    /\ IF Len(MonthlyCustomers(df)) = 0
       THEN /\ err' = "IndexError"
            /\ pc' = "raised"
            /\ UNCHANGED metrics
       ELSE /\ metrics' = PmMetrics(df)
            /\ pc' = "segments"
            /\ UNCHANGED err
    /\ UNCHANGED <<df, customer_insights, insights>>

(***************************************************************************)
(* analyze_customer_segments                                               *)
(***************************************************************************)
RECURSIVE Insert(_, _)
Insert(x, sorted) ==
    IF sorted = <<>> \/ x <= Head(sorted) THEN <<x>> \o sorted
    ELSE <<Head(sorted)>> \o Insert(x, Tail(sorted))

RECURSIVE SortInts(_)
SortInts(xs) == IF xs = <<>> THEN <<>> ELSE Insert(Head(xs), SortInts(Tail(xs)))

\* Series.quantile(qn/qd), interpolation='linear': with v the sorted values
\* and h = (n - 1) * q, the value v[floor h] + (v[floor h + 1] - v[floor h]) *
\* frac(h) (0-based); NaN for an empty column.
Quantile(xs, qn, qd) ==
    LET v == SortInts(xs)
        n == Len(v)
        lo == ((n - 1) * qn) \div qd
        r == ((n - 1) * qn) % qd
    IN IF n = 0 THEN NaN
       ELSE IF r = 0 THEN Num(v[lo + 1])
       ELSE FAdd(Num(v[lo + 1]), FMul(Num(v[lo + 2] - v[lo + 1]), Frac(r, qd)))

\* Mutant: the threshold is taken before the last customer has been seen.
FrequencyThresholdPartial(orders) ==
    Quantile([i \in 1..(Len(orders) - 1) |-> orders[i].Order_Count], 80, 100)

\* quantile(0.80) of the Order_Count column of the whole customer table.
FrequencyThreshold(orders) ==
    Quantile([i \in 1..Len(orders) |-> orders[i].Order_Count], 80, 100)

\* Mutant: > in place of >=.
SegmentOfStrict(x, frequency_threshold) ==
    IF FLt(frequency_threshold, Num(x)) THEN "High Frequency" ELSE "Standard"

\* The lambda of line 257.
SegmentOf(x, frequency_threshold) ==
    IF FGe(Num(x), frequency_threshold) THEN "High Frequency" ELSE "Standard"

\* groupby('Customer_ID').agg(...) with the two ratio columns, before the
\* Segment column is added.
CustomerAggregates(d) ==
    LET cs == SortedSeq(KeysOf(d, "Customer_ID"))
    IN [i \in 1..Len(cs) |->
          LET g == Where(d, "Customer_ID", cs[i])
              rev == SumCol(g, "Sales_Amount")
              prof == SumCol(g, "Profit")
          IN [Customer_ID |-> cs[i], Total_Revenue |-> rev, Order_Count |-> Len(g),
              Total_Profit |-> prof, Total_Quantity |-> SumCol(g, "Quantity"),
              Avg_Order_Value |-> FDiv(Num(rev), Num(Len(g))),
              Profit_Margin |-> FMul(FDiv(Num(prof), Num(rev)), Num(100))]]

CustomerOrders(d) ==
    LET agg == CustomerAggregates(d)
        frequency_threshold == FrequencyThreshold(agg)
    IN [i \in 1..Len(agg) |->
          [Customer_ID |-> agg[i].Customer_ID, Total_Revenue |-> agg[i].Total_Revenue,
           Order_Count |-> agg[i].Order_Count, Total_Profit |-> agg[i].Total_Profit,
           Total_Quantity |-> agg[i].Total_Quantity,
           Avg_Order_Value |-> agg[i].Avg_Order_Value,
           Profit_Margin |-> agg[i].Profit_Margin,
           Segment |-> SegmentOf(agg[i].Order_Count, frequency_threshold)]]

\* The segment labels present, in groupby's (alphabetical) order.
SegmentsPresent(orders) ==
    SelectSeq(<<"High Frequency", "Standard">>,
              LAMBDA g : \E i \in DOMAIN orders : orders[i].Segment = g)

\* Mutant: the largest segment revenue in place of the sum.
RevenueMax(orders) ==
    LET segs == SegmentsPresent(orders)
        revs == {SumCol(Where(orders, "Segment", segs[i]), "Total_Revenue") : i \in DOMAIN segs}
    IN IF revs = {} THEN 0 ELSE CHOOSE x \in revs : \A y \in revs : y <= x

\* The denominator of Revenue_Share: Revenue.sum() over the segment rows.
RevenueTotal(orders) ==
    LET segs == SegmentsPresent(orders)
    IN SumCol([i \in 1..Len(segs) |->
                 [Revenue |-> SumCol(Where(orders, "Segment", segs[i]), "Total_Revenue")]],
              "Revenue")

SegmentStats(orders) ==
    LET segs == SegmentsPresent(orders)
        total == RevenueTotal(orders)
    IN [i \in 1..Len(segs) |->
          LET g == Where(orders, "Segment", segs[i])
              rev == SumCol(g, "Total_Revenue")
              prof == SumCol(g, "Total_Profit")
          IN [Segment |-> segs[i], Customer_Count |-> Len(g), Revenue |-> rev,
              Profit |-> prof, Orders |-> SumCol(g, "Order_Count"),
              Avg_Revenue_Per_Customer |-> FDiv(Num(rev), Num(Len(g))),
              Revenue_Share |-> FMul(FDiv(Num(rev), Num(total)), Num(100)),
              Profit_Margin |-> FMul(FDiv(Num(prof), Num(rev)), Num(100))]]

\* The (Date, Product_Category) pairs present, ascending by Date then category.
RECURSIVE SortedPairs(_)
SortedPairs(S) ==
    IF S = {} THEN <<>>
    ELSE LET m == CHOOSE x \in S : \A y \in S :
                     x[1] < y[1] \/ (x[1] = y[1] /\ x[2] <= y[2])
         IN <<m>> \o SortedPairs(S \ {m})

\* groupby(['Date', 'Product_Category']).agg(sum) with Avg_Price.
DailyProduct(d) ==
    LET ks == SortedPairs({<<d[i].Date, d[i].Product_Category>> : i \in DOMAIN d})
    IN [i \in 1..Len(ks) |->
          LET g == SelectSeq(d, LAMBDA r : r.Date = ks[i][1] /\ r.Product_Category = ks[i][2])
              s == SumCol(g, "Sales_Amount")
              q == SumCol(g, "Quantity")
          IN [Date |-> ks[i][1], Product_Category |-> ks[i][2], Sales_Amount |-> s,
              Quantity |-> q, Profit |-> SumCol(g, "Profit"),
              Avg_Price |-> FDiv(Num(s), Num(q))]]

\* A correlation coefficient is kept as its sign and its square (the square
\* is rational); the NaN coefficient has sq = NaN.
NaNCorr == [sgn |-> 0, sq |-> NaN]

\* The positions Series.corr keeps: notna(a) & notna(b).  An infinite value
\* is not NA, so its row stays.
CorrValid(xs, ys) ==
    SelectSeq([i \in 1..Len(xs) |-> i], LAMBDA i : ~IsNaN(xs[i]) /\ ~IsNaN(ys[i]))

\* Series.corr (Pearson): rows where either value is NaN are dropped; the
\* coefficient of what is left is cov / sqrt(var_x * var_y), which is NaN when
\* a value is infinite or a variance is zero.
Corr(xs, ys) ==
    LET idx == CorrValid(xs, ys)
        n == Len(idx)
        x == [i \in 1..n |-> xs[idx[i]]]
        y == [i \in 1..n |-> ys[idx[i]]]
        sx == FSum(x)
        sy == FSum(y)
        cov == FSub(FMul(Num(n), FSum([i \in 1..n |-> FMul(x[i], y[i])])), FMul(sx, sy))
        vx == FSub(FMul(Num(n), FSum([i \in 1..n |-> FMul(x[i], x[i])])), FMul(sx, sx))
        vy == FSub(FMul(Num(n), FSum([i \in 1..n |-> FMul(y[i], y[i])])), FMul(sy, sy))
    IN IF n = 0 \/ ~IsFinite(cov) \/ ~IsFinite(vx) \/ ~IsFinite(vy) THEN NaNCorr
       ELSE IF vx.n = 0 \/ vy.n = 0 THEN NaNCorr
       ELSE [sgn |-> Sign(cov), sq |-> FDiv(FMul(cov, cov), FMul(vx, vy))]

\* More than this many date-points are needed for a correlation (line 297).
MinDataPoints == 10

CatData(daily, category) == Where(daily, "Product_Category", category)

\* Mutant: >= in place of >.
SufficientDataInclusive(cat_data) == Len(cat_data) >= MinDataPoints

\* The test of line 297.
SufficientData(cat_data) == Len(cat_data) > MinDataPoints

\* The dict built by the loop of lines 294-299: a key per category that
\* passes the test.
PriceElasticity(d) ==
    LET daily == DailyProduct(d)
        cats == {c \in KeysOf(daily, "Product_Category") : SufficientData(CatData(daily, c))}
    IN [c \in cats |->
          LET cat_data == CatData(daily, c)
          IN Corr([i \in 1..Len(cat_data) |-> cat_data[i].Avg_Price],
                  [i \in 1..Len(cat_data) |-> Num(cat_data[i].Quantity)])]

\* The conditional expression of line 300.
ElasticityType(correlation) ==
    IF correlation.sgn < 0 /\ FLt(Frac(9, 100), correlation.sq)
    THEN "Price Sensitive (Elastic)"
    ELSE IF correlation.sgn > 0 /\ FLt(Frac(1, 100), correlation.sq)
    THEN "Price Insensitive"
    ELSE "Moderately Sensitive"

Perms(n) == {p \in [1..n -> 1..n] : \A i, j \in 1..n : p[i] = p[j] => i = j}

\* The row orders DataFrame.sort_values may produce for a column of values:
\* ascending, NaN rows last in their original order; the default sort is not
\* stable, so rows with equal values may come out in either order.
SortOrders(vals) ==
    {p \in Perms(Len(vals)) :
        \A i, j \in 1..Len(vals) : i < j =>
            IF IsNaN(vals[p[i]]) THEN IsNaN(vals[p[j]]) /\ p[i] < p[j]
            ELSE IsNaN(vals[p[j]]) \/ FLe(vals[p[i]], vals[p[j]])}

\* groupby('Product_Category').agg(sum) with the margin column.
ProductPerformance(d) ==
    LET ks == SortedSeq(KeysOf(d, "Product_Category"))
    IN [i \in 1..Len(ks) |->
          LET g == Where(d, "Product_Category", ks[i])
              s == SumCol(g, "Sales_Amount")
              p == SumCol(g, "Profit")
          IN [Product_Category |-> ks[i], Sales_Amount |-> s, Profit |-> p,
              Quantity |-> SumCol(g, "Quantity"),
              Profit_Margin |-> FMul(FDiv(Num(p), Num(s)), Num(100))]]

\* DataFrame.head(n).
HeadRows(rows, n) == SubSeq(rows, 1, IF Len(rows) < n THEN Len(rows) ELSE n)

\* The expression of line 323.
HighFreqRevenueShare(segment_stats) ==
    LET hf == Where(segment_stats, "Segment", "High Frequency")
    IN IF Len(hf) > 0 THEN hf[1].Revenue_Share ELSE Num(0)

NoCustomerInsights ==
    [segment_stats |-> <<>>, high_freq_revenue_share |-> NaN,
     price_elasticity |-> <<>>, top_products |-> <<>>, customer_orders |-> <<>>]

AnalyzeCustomerSegments ==
    /\ pc = "segments"
    /\ LET customer_orders == CustomerOrders(df)
           segment_stats == SegmentStats(customer_orders)
           product_performance == ProductPerformance(df)
       IN \E p \in SortOrders([i \in 1..Len(product_performance) |->
                                  Num(-product_performance[i].Profit)]) :
            customer_insights' =
                [segment_stats |-> segment_stats,
                 high_freq_revenue_share |-> HighFreqRevenueShare(segment_stats),
                 price_elasticity |-> PriceElasticity(df),
                 top_products |->
                     HeadRows([i \in 1..Len(product_performance) |->
                                  product_performance[p[i]]], 5),
                 customer_orders |-> customer_orders]
    /\ pc' = "insights"
    /\ UNCHANGED <<df, metrics, insights, err>>

(***************************************************************************)
(* generate_pm_insights                                                    *)
(***************************************************************************)
\* Series.idxmin(): the label of the first smallest non-NaN entry; 0 stands
\* for the NaN label an all-NaN column gives.
IdxMin(rows, f) ==
    LET ok == {i \in DOMAIN rows : ~IsNaN(rows[i][f])}
    IN IF ok = {} THEN 0
       ELSE rows[CHOOSE i \in ok : \A j \in ok :
                    FLt(rows[i][f], rows[j][f]) \/ (FLe(rows[i][f], rows[j][f]) /\ i <= j)].Key

\* Series.min(): the smallest non-NaN entry, NaN when there is none.
ColMin(rows, f) ==
    LET ok == {i \in DOMAIN rows : ~IsNaN(rows[i][f])}
    IN IF ok = {} THEN NaN
       ELSE rows[CHOOSE i \in ok : \A j \in ok : FLe(rows[i][f], rows[j][f])][f]

\* Line 470.
PotentialImprovement(weakest_sales, weakest_margin, strongest_margin) ==
    FMul(Num(weakest_sales), FDiv(FSub(strongest_margin, weakest_margin), Num(100)))

\* The percentage printed by line 475.
UpliftPct(potential_improvement, total_profit) ==
    FMul(FDiv(potential_improvement, Num(total_profit)), Num(100))

\* Lines 504-523: which of the three segment findings is printed.
SegmentFinding(segment_stats) ==
    IF Len(segment_stats) >= 2
    THEN LET high_freq_row == Where(segment_stats, "Segment", "High Frequency")[1]
             std_row == Where(segment_stats, "Segment", "Standard")[1]
             margin_diff == FSub(high_freq_row.Profit_Margin, std_row.Profit_Margin)
         IN IF FLt(margin_diff, Num(0)) THEN "lower_margin" ELSE "higher_margin"
    ELSE "general"

NoInsights ==
    [weakest_region |-> 0, weakest_margin |-> NaN, weakest_sales |-> 0,
     strongest_region |-> 0, strongest_margin |-> NaN, strongest_sales |-> 0,
     worst_category |-> 0, worst_category_margin |-> NaN,
     potential_improvement |-> NaN, uplift_pct |-> NaN,
     segment_finding |-> "none", zero_divisors |-> {}]

\* What the function computes from the sorted regional table (lines 440-523).
\* zero_divisors records the lines whose division had a zero denominator.
PmInsights(d, regional_margins, segment_stats) ==
    LET n == Len(regional_margins)
        weakest == regional_margins[1]
        strongest == regional_margins[n]
        weak_region_data == Where(d, "Region", weakest.Key)
        category_performance == MarginsBy(weak_region_data, "Product_Category")
        potential_improvement ==
            PotentialImprovement(weakest.Sales_Amount, weakest.Profit_Margin,
                                 strongest.Profit_Margin)
        total_profit == SumCol(regional_margins, "Profit")
    IN [weakest_region |-> weakest.Key, weakest_margin |-> weakest.Profit_Margin,
        weakest_sales |-> weakest.Sales_Amount,
        strongest_region |-> strongest.Key, strongest_margin |-> strongest.Profit_Margin,
        strongest_sales |-> strongest.Sales_Amount,
        worst_category |-> IdxMin(category_performance, "Profit_Margin"),
        worst_category_margin |-> ColMin(category_performance, "Profit_Margin"),
        potential_improvement |-> potential_improvement,
        uplift_pct |-> UpliftPct(potential_improvement, total_profit),
        segment_finding |-> SegmentFinding(segment_stats),
        zero_divisors |->
            {454 : i \in {j \in DOMAIN category_performance :
                            category_performance[j].Sales_Amount = 0}}
            \cup {475 : i \in {j \in {1} : total_profit = 0}}]

\* sort_values('Profit_Margin') of the regional table.
SortedRegionalMargins(regional_margins, p) ==
    [i \in 1..Len(regional_margins) |-> regional_margins[p[i]]]

\* index[0] of an empty table raises IndexError (line 440).  idxmin of an
\* all-NaN column raises ValueError or gives the NaN label, depending on the
\* pandas version (line 456).
GeneratePmInsights ==
    /\ pc = "insights"
    /\ IF Len(metrics.regional_margins) = 0
       THEN /\ err' = "IndexError"
            /\ pc' = "raised"
            /\ UNCHANGED insights
       ELSE \E p \in SortOrders([i \in 1..Len(metrics.regional_margins) |->
                                    metrics.regional_margins[i].Profit_Margin]) :
              LET out == PmInsights(df, SortedRegionalMargins(metrics.regional_margins, p),
                                    customer_insights.segment_stats)
              IN \/ /\ insights' = out
                    /\ pc' = "done"
                    /\ UNCHANGED err
                 \/ /\ IsNaN(out.worst_category_margin)
                    /\ err' = "ValueError"
                    /\ pc' = "raised"
                    /\ UNCHANGED insights
    /\ UNCHANGED <<df, metrics, customer_insights>>

Init ==
    /\ df \in Datasets
    /\ pc = "metrics"
    /\ metrics = NoMetrics
    /\ customer_insights = NoCustomerInsights
    /\ insights = NoInsights
    /\ err = "none"

Next == CalculatePmMetrics \/ AnalyzeCustomerSegments \/ GeneratePmInsights

Spec == Init /\ [][Next]_vars

(***************************************************************************)
(* Which results are available in a state                                  *)
(***************************************************************************)
\* calculate_pm_metrics has returned.
MetricsReturned ==
    pc \in {"segments", "insights", "done"} \/ (pc = "raised" /\ err = "ValueError")

\* analyze_customer_segments has returned.
SegmentsReturned == pc \in {"insights", "done"} \/ (pc = "raised" /\ err = "ValueError")

\* generate_pm_insights has returned.
InsightsReturned == pc = "done"

(***************************************************************************)
(* C1                                                                      *)
(***************************************************************************)
\* C1: accounting conservation.  Once calculate_pm_metrics has returned, the
\* Sales_Amount column of the monthly series adds up to the Sales_Amount
\* column of the whole table, and the series has one row per month present.
C1_Conservation ==
    MetricsReturned =>
        /\ SumCol(metrics.monthly_sales, "Sales_Amount") = SumCol(df, "Sales_Amount")
        /\ Len(metrics.monthly_sales) = Cardinality({MonthOf(df[i].Date) : i \in DOMAIN df})

\* A table with two months, one of them holding two records with revenue.
C1_Witness ==
    /\ MetricsReturned
    /\ Len(metrics.monthly_sales) >= 2
    /\ \E i, j \in DOMAIN df :
          i # j /\ df[i].Month = df[j].Month /\ df[i].Sales_Amount > 0 /\ df[j].Sales_Amount > 0

(***************************************************************************)
(* C2                                                                      *)
(***************************************************************************)
\* The order counts of the whole customer population, read off the table.
OrdersOf(c) == Cardinality({i \in DOMAIN df : df[i].Customer_ID = c})

Population == {df[i].Customer_ID : i \in DOMAIN df}

\* The k-th smallest (k = 0, 1, ...) order count of the population: the value
\* a with at most k customers below it and more than k at or below it.
OrderStatistic(k) ==
    CHOOSE a \in {OrdersOf(c) : c \in Population} :
        /\ Cardinality({c \in Population : OrdersOf(c) < a}) <= k
        /\ Cardinality({c \in Population : OrdersOf(c) <= a}) > k

\* Five times the 80th percentile by linear interpolation at rank
\* 0.8 * (n - 1) = lo + r/5: (5 - r) * v[lo] + r * v[lo + 1].
FiveTimesP80 ==
    LET n == Cardinality(Population)
        lo == (4 * (n - 1)) \div 5
        r == (4 * (n - 1)) % 5
    IN IF r = 0 THEN 5 * OrderStatistic(lo)
       ELSE (5 - r) * OrderStatistic(lo) + r * OrderStatistic(lo + 1)

\* C2: every customer of the table has one row in customer_orders, with its
\* number of records as Order_Count; the threshold is the 80th percentile of
\* the whole population's order counts and lies within [min, max]; a customer
\* is High Frequency exactly when its order count is >= that threshold
\* (equality included), Standard otherwise, so customers with the largest
\* order count are High Frequency and equal order counts give equal segments.
C2_SegmentAssignment ==
    SegmentsReturned =>
        LET orders == customer_insights.customer_orders
        IN /\ {orders[i].Customer_ID : i \in DOMAIN orders} = Population
           /\ Len(orders) = Cardinality(Population)
           /\ \E c \in Population : 5 * OrdersOf(c) <= FiveTimesP80
           /\ \E c \in Population : 5 * OrdersOf(c) >= FiveTimesP80
           /\ \A i \in DOMAIN orders :
                 (\A c \in Population : OrdersOf(c) <= orders[i].Order_Count)
                    => orders[i].Segment = "High Frequency"
           /\ \A i, j \in DOMAIN orders :
                 orders[i].Order_Count = orders[j].Order_Count
                    => orders[i].Segment = orders[j].Segment
           /\ \A i \in DOMAIN orders :
                 /\ orders[i].Order_Count = OrdersOf(orders[i].Customer_ID)
                 /\ orders[i].Segment \in {"High Frequency", "Standard"}
                 /\ orders[i].Segment = "High Frequency"
                       <=> 5 * orders[i].Order_Count >= FiveTimesP80

\* Both segments present and a customer exactly at a threshold that is
\* strictly above the smallest order count.
C2_Witness ==
    /\ SegmentsReturned
    /\ Len(customer_insights.segment_stats) = 2
    /\ \E c, d \in Population :
          5 * OrdersOf(c) = FiveTimesP80 /\ OrdersOf(d) < OrdersOf(c)

(***************************************************************************)
(* C3                                                                      *)
(***************************************************************************)
\* C3: with at least five customers whose order counts are not all equal,
\* some customer is High Frequency.
C3_HighFrequencyNonEmpty ==
    (/\ SegmentsReturned
     /\ Cardinality(Population) >= 5
     /\ \E c, d \in Population : OrdersOf(c) # OrdersOf(d))
    => \E i \in DOMAIN customer_insights.customer_orders :
          customer_insights.customer_orders[i].Segment = "High Frequency"

\* Five customers, one with fewer orders than the other four: the threshold
\* equals the largest order count.
C3_Witness ==
    /\ SegmentsReturned
    /\ Cardinality(Population) >= 5
    /\ \E c \in Population :
          /\ \A d \in Population \ {c} : OrdersOf(d) > OrdersOf(c)
          /\ \A d, e \in Population \ {c} : OrdersOf(d) = OrdersOf(e)
    /\ \E i \in DOMAIN customer_insights.customer_orders :
          customer_insights.customer_orders[i].Segment = "High Frequency"

(***************************************************************************)
(* C4                                                                      *)
(***************************************************************************)
ShareSum(segment_stats) ==
    FSum([i \in 1..Len(segment_stats) |-> segment_stats[i].Revenue_Share])

\* C4 as stated: for every record set the Revenue_Share values of the
\* segments present sum to 100.
C4_SharesSumTo100 ==
    SegmentsReturned => ShareSum(customer_insights.segment_stats) = Num(100)

\* C4 amended: when the table's total Sales_Amount is not zero, the segment
\* revenues add up to that total, every Revenue_Share is the segment's
\* revenue over that total times 100, and the shares sum to 100 (with one
\* segment present, its share is 100).
C4_SharesSumTo100WhenRevenue ==
    (SegmentsReturned /\ SumCol(df, "Sales_Amount") # 0) =>
        LET stats == customer_insights.segment_stats
            total == SumCol(df, "Sales_Amount")
        IN /\ SumCol(stats, "Revenue") = total
           /\ \A i \in DOMAIN stats :
                 /\ IsFinite(stats[i].Revenue_Share)
                 /\ stats[i].Revenue_Share.n * total = 100 * stats[i].Revenue * stats[i].Revenue_Share.d
           /\ ShareSum(stats) = Num(100)
           /\ Len(stats) = 1 => stats[1].Revenue_Share = Num(100)

\* Two segments, each with revenue.
C4_Witness ==
    /\ SegmentsReturned
    /\ Len(customer_insights.segment_stats) = 2
    /\ \A i \in 1..2 : customer_insights.segment_stats[i].Revenue > 0

(***************************************************************************)
(* C5                                                                      *)
(***************************************************************************)
\* The number of distinct dates on which a category has records.
DatePoints(cat) == Cardinality({df[i].Date : i \in {j \in DOMAIN df : df[j].Product_Category = cat}})

\* C5: the keys of price_elasticity are exactly the categories of the table
\* with more than 10 date-points; a category with 10 or fewer has no entry.
C5_ElasticityThreshold ==
    SegmentsReturned =>
        DOMAIN customer_insights.price_elasticity =
            {cat \in {df[i].Product_Category : i \in DOMAIN df} : DatePoints(cat) > 10}

\* One category with exactly 10 date-points (and more than 10 rows) is left
\* out while another with 11 is reported.
C5_Witness ==
    /\ SegmentsReturned
    /\ \E a, b \in {df[i].Product_Category : i \in DOMAIN df} :
          /\ DatePoints(a) = 10
          /\ Cardinality({i \in DOMAIN df : df[i].Product_Category = a}) > 10
          /\ a \notin DOMAIN customer_insights.price_elasticity
          /\ DatePoints(b) = 11
          /\ b \in DOMAIN customer_insights.price_elasticity

(***************************************************************************)
(* C6                                                                      *)
(***************************************************************************)
\* The regions whose margin is defined: those with non-zero total sales.
WithRevenue(regional_margins) ==
    {i \in DOMAIN regional_margins : regional_margins[i].Sales_Amount # 0}

\* The opportunity arithmetic for a regional table rm and a result out: the
\* weakest margin is the smallest and the strongest the largest defined
\* margin, each reported with its own region and sales, and
\* potential_improvement is weakest_sales * (strongest - weakest) / 100, which
\* is (S_lo * P_hi - P_lo * S_hi) / S_hi in the regions' sales S and profits P,
\* a number that is not negative.
OpportunityArithmetic(rm, out) ==
    /\ \E i \in WithRevenue(rm) :
          /\ out.weakest_region = rm[i].Key
          /\ out.weakest_margin = rm[i].Profit_Margin
          /\ out.weakest_sales = rm[i].Sales_Amount
          /\ \A j \in WithRevenue(rm) : FLe(rm[i].Profit_Margin, rm[j].Profit_Margin)
    /\ \E i \in WithRevenue(rm) :
          /\ out.strongest_region = rm[i].Key
          /\ out.strongest_margin = rm[i].Profit_Margin
          /\ \A j \in WithRevenue(rm) : FLe(rm[j].Profit_Margin, rm[i].Profit_Margin)
    /\ IsFinite(out.potential_improvement)
    /\ out.potential_improvement.n >= 0
    /\ \E lo, hi \in WithRevenue(rm) :
          /\ out.weakest_region = rm[lo].Key
          /\ out.strongest_region = rm[hi].Key
          /\ out.potential_improvement.n * rm[hi].Sales_Amount
                = out.potential_improvement.d
                     * (rm[lo].Sales_Amount * rm[hi].Profit - rm[lo].Profit * rm[hi].Sales_Amount)

\* Regions A (sales 1000, margin 10%) and B (sales 2000, margin 20%).
ExampleRegions(rm) ==
    /\ Len(rm) = 2
    /\ rm[1].Sales_Amount = 1000 /\ rm[1].Profit = 100
    /\ rm[2].Sales_Amount = 2000 /\ rm[2].Profit = 400

\* C6 as stated: whenever generate_pm_insights returns for a table with a
\* region of defined margin, the opportunity arithmetic holds; for the
\* example regions the weakest is A and potential_improvement is 100.
C6_OpportunityArithmetic ==
    (InsightsReturned /\ WithRevenue(metrics.regional_margins) # {}) =>
        /\ OpportunityArithmetic(metrics.regional_margins, insights)
        /\ ExampleRegions(metrics.regional_margins) =>
              insights.weakest_region = 1 /\ insights.potential_improvement = Num(100)

\* The same statement for the tables in which every region has non-zero total
\* sales: the part of C6 the code does satisfy.
OpportunityArithmeticWithRevenue ==
    (/\ InsightsReturned
     /\ WithRevenue(metrics.regional_margins) = DOMAIN metrics.regional_margins) =>
        /\ OpportunityArithmetic(metrics.regional_margins, insights)
        /\ ExampleRegions(metrics.regional_margins) =>
              insights.weakest_region = 1 /\ insights.potential_improvement = Num(100)

\* The example of C6 has been run to the end.
ExampleRegionsDone == InsightsReturned /\ ExampleRegions(metrics.regional_margins)

(***************************************************************************)
(* C7                                                                      *)
(***************************************************************************)
\* C7 as stated: when the table has exactly one region, generate_pm_insights
\* returns, the weakest and the strongest region are that region, the
\* opportunity estimate is 0 and no division of the computation had a zero
\* denominator.
C7_SingleRegion ==
    (Len(metrics.regional_margins) = 1 /\ pc \in {"done", "raised"}) =>
        /\ pc = "done"
        /\ insights.weakest_region = insights.strongest_region
        /\ insights.potential_improvement = Num(0)
        /\ insights.zero_divisors = {}

\* The part of C7 the code does satisfy: one region with non-zero total sales
\* and non-zero total profit, every category of it with non-zero sales.
SingleRegionWithRevenueAndProfit ==
    (/\ Len(metrics.regional_margins) = 1
     /\ pc \in {"done", "raised"}
     /\ SumCol(df, "Profit") # 0
     /\ \A c \in KeysOf(df, "Product_Category") :
           SumCol(Where(df, "Product_Category", c), "Sales_Amount") # 0) =>
        /\ pc = "done"
        /\ insights.weakest_region = insights.strongest_region
        /\ insights.potential_improvement = Num(0)
        /\ insights.zero_divisors = {}

(***************************************************************************)
(* C8                                                                      *)
(***************************************************************************)
\* The rows of a monthly series whose growth is defined: not the first, and
\* the previous month's total is not zero.
GrowthDefined(ms) == {i \in DOMAIN ms : i > 1 /\ ms[i - 1].Sales_Amount # 0}

\* The series is in strictly ascending month order, covers the months of the
\* table, the first row has no growth, and a row with a non-zero predecessor
\* has growth (curr - prev) / prev * 100.
GrowthSeriesShape(ms) ==
    /\ \A i, j \in DOMAIN ms : i < j => ms[i].Month < ms[j].Month
    /\ {ms[i].Month : i \in DOMAIN ms} = {MonthOf(df[i].Date) : i \in DOMAIN df}
    /\ \A i \in DOMAIN ms :
          ms[i].Sales_Amount =
             SumCol(SelectSeq(df, LAMBDA r : MonthOf(r.Date) = ms[i].Month), "Sales_Amount")
    /\ Len(ms) >= 1 => IsNaN(ms[1].MRR_Growth)
    /\ \A i \in GrowthDefined(ms) :
          ms[i].MRR_Growth =
             Frac((ms[i].Sales_Amount - ms[i - 1].Sales_Amount) * 100, ms[i - 1].Sales_Amount)

\* The arithmetic mean of the defined growth values (NaN when there is none).
MeanOfDefinedGrowth(ms) ==
    LET idx == SelectSeq([i \in 1..Len(ms) |-> i], LAMBDA i : i \in GrowthDefined(ms))
    IN IF idx = <<>> THEN NaN
       ELSE FDiv(FSum([k \in 1..Len(idx) |->
                          Frac((ms[idx[k]].Sales_Amount - ms[idx[k] - 1].Sales_Amount) * 100,
                               ms[idx[k] - 1].Sales_Amount)]),
                 Num(Len(idx)))

\* C8 as stated: the shape above, and avg_mrr_growth is the mean of exactly
\* the defined growth values.
C8_GrowthSeries ==
    MetricsReturned =>
        /\ GrowthSeriesShape(metrics.monthly_sales)
        /\ metrics.avg_mrr_growth = MeanOfDefinedGrowth(metrics.monthly_sales)

\* The part of C8 the code does satisfy: the shape always, and the mean when
\* no month with revenue follows a month without.
GrowthSeriesWithoutZeroMonths ==
    MetricsReturned =>
        /\ GrowthSeriesShape(metrics.monthly_sales)
        /\ (\A i \in DOMAIN metrics.monthly_sales :
               i > 1 /\ metrics.monthly_sales[i - 1].Sales_Amount = 0
                  => metrics.monthly_sales[i].Sales_Amount = 0)
              => metrics.avg_mrr_growth = MeanOfDefinedGrowth(metrics.monthly_sales)

\* Three months given out of chronological order, with two defined growths.
GrowthSeriesReached ==
    /\ MetricsReturned
    /\ Len(metrics.monthly_sales) = 3
    /\ Cardinality(GrowthDefined(metrics.monthly_sales)) = 2
    /\ \E i, j \in DOMAIN df : i < j /\ df[i].Month > df[j].Month

(***************************************************************************)
(* C9                                                                      *)
(***************************************************************************)
\* C9 as stated: a month whose previous month's total is zero has the
\* undefined marker (NaN) as growth and is left out of the mean; a region with
\* zero total sales has the undefined marker as margin; and a non-empty table
\* raises no exception anywhere in the run.
C9_ZeroDenominatorsUndefined ==
    /\ MetricsReturned =>
          /\ \A i \in DOMAIN metrics.monthly_sales :
                i > 1 /\ metrics.monthly_sales[i - 1].Sales_Amount = 0
                   => IsNaN(metrics.monthly_sales[i].MRR_Growth)
          /\ metrics.avg_mrr_growth = MeanOfDefinedGrowth(metrics.monthly_sales)
          /\ \A i \in DOMAIN metrics.regional_margins :
                metrics.regional_margins[i].Sales_Amount = 0
                   => IsNaN(metrics.regional_margins[i].Profit_Margin)
    /\ Len(df) > 0 => err = "none"

(***************************************************************************)
(* C10                                                                     *)
(***************************************************************************)
\* C10 as stated: on the empty table calculate_pm_metrics returns, with no
\* monthly or regional rows and empty growth and CAC columns, and nothing in
\* the run raises.
C10_EmptyDataset ==
    (df = <<>> /\ pc # "metrics") =>
        /\ err = "none"
        /\ MetricsReturned
        /\ metrics.monthly_sales = <<>>
        /\ metrics.monthly_customers = <<>>
        /\ metrics.regional_margins = <<>>

(***************************************************************************)
(* C11                                                                     *)
(***************************************************************************)
\* The (date, category) points of a category, as the code groups them.
PointsOf(c) == CatData(DailyProduct(df), c)

PricesOf(c) == [i \in 1..Len(PointsOf(c)) |-> PointsOf(c)[i].Avg_Price]

QuantitiesOf(c) == [i \in 1..Len(PointsOf(c)) |-> Num(PointsOf(c)[i].Quantity)]

\* The points of a category whose total quantity is 0.
ZeroQuantityPoints(c) == {i \in DOMAIN PointsOf(c) : PointsOf(c)[i].Quantity = 0}

\* The points that enter the correlation of a category.
FedToCorrelation(c) ==
    LET idx == CorrValid(PricesOf(c), QuantitiesOf(c))
    IN {idx[k] : k \in DOMAIN idx}

\* The coefficient of the points of a category with quantity > 0 alone.
CorrelationOfSoldPoints(c) ==
    LET sold == SelectSeq(PointsOf(c), LAMBDA r : r.Quantity > 0)
    IN Corr([i \in 1..Len(sold) |-> Frac(sold[i].Sales_Amount, sold[i].Quantity)],
            [i \in 1..Len(sold) |-> Num(sold[i].Quantity)])

\* A zero-quantity point of a reported category has no Avg_Price, is not fed to
\* the correlation, and the reported coefficient is that of the other points.
ZeroQuantityExcluded(c) ==
    /\ \A i \in ZeroQuantityPoints(c) :
          IsNaN(PointsOf(c)[i].Avg_Price) /\ i \notin FedToCorrelation(c)
    /\ customer_insights.price_elasticity[c] = CorrelationOfSoldPoints(c)

HasZeroQuantityPoint ==
    \E c \in KeysOf(df, "Product_Category") : ZeroQuantityPoints(c) # {}

\* C11 as stated: once analyze_customer_segments has returned, every reported
\* category has its zero-quantity points excluded from the average price and
\* from the correlation; and a table with a zero-quantity point raises no
\* exception anywhere in the run.
C11_ZeroQuantityExcluded ==
    /\ SegmentsReturned =>
          \A c \in DOMAIN customer_insights.price_elasticity : ZeroQuantityExcluded(c)
    /\ HasZeroQuantityPoint => err = "none"

\* The part of C11 the code does satisfy: a zero-quantity point whose total
\* sales are 0 too (0/0 is NaN, which Series.corr drops).
ZeroQuantityWithoutSalesExcluded ==
    /\ SegmentsReturned =>
          \A c \in DOMAIN customer_insights.price_elasticity :
             (\A i \in ZeroQuantityPoints(c) : PointsOf(c)[i].Sales_Amount = 0)
                => ZeroQuantityExcluded(c)
    /\ HasZeroQuantityPoint => err = "none"

\* A reported category with a zero-quantity, zero-sales point and a defined
\* coefficient.
ZeroQuantityWithoutSalesReached ==
    /\ SegmentsReturned
    /\ \E c \in DOMAIN customer_insights.price_elasticity :
          /\ ZeroQuantityPoints(c) # {}
          /\ \A i \in ZeroQuantityPoints(c) : PointsOf(c)[i].Sales_Amount = 0
          /\ ~IsNaN(customer_insights.price_elasticity[c].sq)

\* A reported category with a zero-quantity point that has sales: the point
\* has the price +inf, is fed to the correlation, and the coefficient is NaN.
ZeroQuantityWithSalesFed ==
    /\ SegmentsReturned
    /\ \E c \in DOMAIN customer_insights.price_elasticity :
          \E i \in ZeroQuantityPoints(c) :
             /\ PointsOf(c)[i].Avg_Price = PosInf
             /\ i \in FedToCorrelation(c)
             /\ IsNaN(customer_insights.price_elasticity[c].sq)
             /\ ~IsNaN(CorrelationOfSoldPoints(c).sq)

(***************************************************************************)
(* C12                                                                     *)
(***************************************************************************)
\* Row i comes first when the regional table rm is ranked by margin
\* ascending with ties ordered by total sales descending.
RankedFirst(rm, i) ==
    \A j \in DOMAIN rm :
       \/ FLt(rm[i].Profit_Margin, rm[j].Profit_Margin)
       \/ /\ rm[i].Profit_Margin = rm[j].Profit_Margin
          /\ rm[i].Sales_Amount >= rm[j].Sales_Amount

\* Row i comes last in that ranking.
RankedLast(rm, i) ==
    \A j \in DOMAIN rm :
       \/ FLt(rm[j].Profit_Margin, rm[i].Profit_Margin)
       \/ /\ rm[i].Profit_Margin = rm[j].Profit_Margin
          /\ rm[i].Sales_Amount <= rm[j].Sales_Amount

\* The weakest region reported is a first and the strongest a last row of the
\* ranking, each with its own margin and sales.
RankedBySalesOnTies(rm, out) ==
    /\ \E i \in DOMAIN rm :
          /\ RankedFirst(rm, i)
          /\ out.weakest_region = rm[i].Key
          /\ out.weakest_margin = rm[i].Profit_Margin
          /\ out.weakest_sales = rm[i].Sales_Amount
    /\ \E i \in DOMAIN rm :
          /\ RankedLast(rm, i)
          /\ out.strongest_region = rm[i].Key
          /\ out.strongest_margin = rm[i].Profit_Margin
          /\ out.strongest_sales = rm[i].Sales_Amount

\* Two regions with the same margin and different total sales.
TiedRegions(rm) ==
    {pr \in (DOMAIN rm) \X (DOMAIN rm) :
        /\ rm[pr[1]].Profit_Margin = rm[pr[2]].Profit_Margin
        /\ rm[pr[1]].Sales_Amount > rm[pr[2]].Sales_Amount}

\* C12 as stated: whenever generate_pm_insights returns, the weakest region
\* is the first and the strongest the last region of the ranking by margin
\* ascending, ties ordered by total sales descending, so both are determined
\* by the regional aggregates.
C12_RankingTieBreak ==
    InsightsReturned => RankedBySalesOnTies(metrics.regional_margins, insights)

\* The part of C12 the code does satisfy: when every region has non-zero total
\* sales the weakest margin is the smallest and the strongest the largest, and
\* when moreover no two regions tie the regions are the ranking's.
RankingWithoutTies ==
    (/\ InsightsReturned
     /\ WithRevenue(metrics.regional_margins) = DOMAIN metrics.regional_margins) =>
        /\ \A j \in DOMAIN metrics.regional_margins :
              /\ FLe(insights.weakest_margin, metrics.regional_margins[j].Profit_Margin)
              /\ FLe(metrics.regional_margins[j].Profit_Margin, insights.strongest_margin)
        /\ TiedRegions(metrics.regional_margins) = {} =>
              RankedBySalesOnTies(metrics.regional_margins, insights)

\* Two regions with different margins, both with revenue, ranked to the end.
RankingWithoutTiesReached ==
    /\ InsightsReturned
    /\ Len(metrics.regional_margins) = 2
    /\ WithRevenue(metrics.regional_margins) = DOMAIN metrics.regional_margins
    /\ FLt(metrics.regional_margins[2].Profit_Margin, metrics.regional_margins[1].Profit_Margin)
    /\ insights.weakest_region = metrics.regional_margins[2].Key
    /\ insights.strongest_region = metrics.regional_margins[1].Key

\* A tie between two regions with revenue, with the region of smaller total
\* sales reported as the weakest.
TieWeakestHasSmallerSales ==
    /\ InsightsReturned
    /\ WithRevenue(metrics.regional_margins) = DOMAIN metrics.regional_margins
    /\ \E pr \in TiedRegions(metrics.regional_margins) :
          /\ insights.weakest_region = metrics.regional_margins[pr[2]].Key
          /\ insights.weakest_sales = metrics.regional_margins[pr[2]].Sales_Amount

\* The same tie with the region of larger total sales reported as the weakest:
\* sort_values may give either order.
TieWeakestHasLargerSales ==
    /\ InsightsReturned
    /\ WithRevenue(metrics.regional_margins) = DOMAIN metrics.regional_margins
    /\ \E pr \in TiedRegions(metrics.regional_margins) :
          /\ insights.weakest_region = metrics.regional_margins[pr[1]].Key
          /\ insights.weakest_sales = metrics.regional_margins[pr[1]].Sales_Amount

====
